---- MODULE Spec2Model ----
(***************************************************************************)
(* Model of src/app.py (williamjohndias/dashPrecs): the ledger snapshot    *)
(* loader carregar_dados_movimentacoes, the balance resolver               *)
(* calcular_saldos and the comparison request of main.                     *)
(*                                                                         *)
(* Calendar dates are day numbers: day n is 2020-01-01 plus n days.        *)
(* Strings are sequences of one-character strings.  A nullable value       *)
(* (SQL NULL, Python None, pandas NaN / NaT) is a sequence of length at    *)
(* most one: None is <<>>, a present value v is <<v>>.                     *)
(***************************************************************************)
EXTENDS Integers, Sequences, FiniteSets, TLC

\* ---------------------------------------------------------------------
\* Bounds of the model
\* ---------------------------------------------------------------------
MaxEntries == 3
MaxDay == 2

\* ---------------------------------------------------------------------
\* Program constants
\* ---------------------------------------------------------------------
\* min(data_ref, data_hoje) - pd.Timedelta(days=30)
DiasHistorico == 30
\* max(data_ref, data_hoje) + pd.Timedelta(days=1)
DiasDepois == 1
\* BETWEEN '2020-01-01' AND '2030-12-31', as day numbers
DataInicioPadrao == 0
DataFimPadrao == 4017

\* ---------------------------------------------------------------------
\* Nullable values
\* ---------------------------------------------------------------------
None == <<>>
Some(x) == <<x>>
Val(o) == o[1]

\* ---------------------------------------------------------------------
\* Strings
\* ---------------------------------------------------------------------
Ord(c) == CASE c = " " -> 32 [] c = "A" -> 65 [] c = "B" -> 66

RECURSIVE LStrip(_)
LStrip(s) == IF s # <<>> /\ Head(s) = " " THEN LStrip(Tail(s)) ELSE s

RECURSIVE RStrip(_)
RStrip(s) ==
    IF s # <<>> /\ s[Len(s)] = " " THEN RStrip(SubSeq(s, 1, Len(s) - 1)) ELSE s

\* str.strip()
Strip(s) == RStrip(LStrip(s))

\* str < str, by code point
RECURSIVE StrLess(_, _)
StrLess(a, b) ==
    IF b = <<>> THEN FALSE
    ELSE IF a = <<>> THEN TRUE
    ELSE IF Head(a) # Head(b) THEN Ord(Head(a)) < Ord(Head(b))
    ELSE StrLess(Tail(a), Tail(b))

\* ---------------------------------------------------------------------
\* Stable sort: the element at position i moves to position Rank.
\* before[i][j] says that position i's key sorts strictly before j's.
\* ---------------------------------------------------------------------
StableSort(s, before) ==
    LET Rank(i) == 1 + Cardinality({j \in DOMAIN s :
                        before[j][i] \/ (~before[i][j] /\ j < i)})
    IN [p \in 1..Len(s) |-> s[CHOOSE i \in DOMAIN s : Rank(i) = p]]

\* ---------------------------------------------------------------------
\* carregar_dados_movimentacoes
\*
\* A row of table movimentacoes:
\*   [id, municipio, data_movimentacao, saldo_anterior_valor,
\*    saldo_atualizado_valor]
\* municipio is None or Some(string).  data_movimentacao is None or
\* Some([valida, dia]): a value that parses as the date `dia`, or one that
\* does not parse (such as '2020-01-32') and that the database compares
\* as text, right after the date `dia`.
\* ---------------------------------------------------------------------

\* data_movimentacao BETWEEN 'inicio' AND 'fim' (inclusive)
Between(v, inicio, fim) ==
    IF v.valida THEN inicio <= v.dia /\ v.dia <= fim
    ELSE inicio <= v.dia /\ v.dia < fim

\* WHERE data_movimentacao IS NOT NULL AND data_movimentacao BETWEEN ...
Where(r, data_inicio, data_fim) ==
    /\ r.data_movimentacao # None
    /\ IF data_inicio # None /\ data_fim # None
       THEN Between(Val(r.data_movimentacao), Val(data_inicio), Val(data_fim))
       ELSE Between(Val(r.data_movimentacao), DataInicioPadrao, DataFimPadrao)

\* ORDER BY municipio, data_movimentacao, id  (NULL municipio last)
OrderByLess(a, b) ==
    LET da == Val(a.data_movimentacao)
        db == Val(b.data_movimentacao)
    IN  IF a.municipio # b.municipio
        THEN IF a.municipio = None THEN FALSE
             ELSE IF b.municipio = None THEN TRUE
             ELSE StrLess(Val(a.municipio), Val(b.municipio))
        ELSE IF da.dia # db.dia THEN da.dia < db.dia
        ELSE IF da.valida # db.valida THEN da.valida
        ELSE a.id < b.id

\* pd.read_sql(query, engine): the rows of `tabela` (a sequence in id order)
\* that satisfy the WHERE clause, in the ORDER BY order
ReadSql(tabela, data_inicio, data_fim) ==
    LET Sel(r) == Where(r, data_inicio, data_fim)
        rows == SelectSeq(tabela, Sel)
        before == [i \in DOMAIN rows |-> [j \in DOMAIN rows |->
                        OrderByLess(rows[i], rows[j])]]
    IN StableSort(rows, before)

\* df.dropna(subset=['municipio', 'data_movimentacao'])
DropNa(rows) ==
    LET Keep(r) == r.municipio # None /\ r.data_movimentacao # None
    IN SelectSeq(rows, Keep)

\* pd.to_datetime(..., errors='coerce'): NaT (None) for what does not parse
ToDatetime(v) == IF v.valida THEN Some(v.dia) ELSE None

\* the three column assignments after dropna
Normalizar(r) ==
    LET ts == ToDatetime(Val(r.data_movimentacao))
    IN [id |-> r.id,
        municipio |-> IF r.municipio = None THEN None
                      ELSE Some(Strip(Val(r.municipio))),
        data_movimentacao |-> ts,
        data_only |-> ts,
        saldo_anterior_valor |-> r.saldo_anterior_valor,
        saldo_atualizado_valor |-> r.saldo_atualizado_valor]

carregar_dados_movimentacoes(tabela, data_inicio, data_fim) ==
    LET lidas == DropNa(ReadSql(tabela, data_inicio, data_fim))
    IN [i \in 1..Len(lidas) |-> Normalizar(lidas[i])]

\* ---------------------------------------------------------------------
\* calcular_saldos
\*
\* A row of df: [id, municipio, data_movimentacao, data_only,
\* saldo_anterior_valor, saldo_atualizado_valor]; data_only is None for NaT.
\* ---------------------------------------------------------------------

\* df.groupby('municipio'): the distinct non-null keys, in sorted order
GroupKeys(df) ==
    LET keys == {Val(df[i].municipio) :
                    i \in {j \in DOMAIN df : df[j].municipio # None}}
        Rank(k) == 1 + Cardinality({q \in keys : StrLess(q, k)})
    IN [p \in 1..Cardinality(keys) |-> CHOOSE k \in keys : Rank(k) = p]

\* the rows of one group, in the order they have in df
Grupo(df, municipio) ==
    LET Sel(r) == r.municipio = Some(municipio)
    IN SelectSeq(df, Sel)

\* grupo.sort_values(['data_only', 'id'])  (NaT last)
SortGrupo(grupo) ==
    LET Before(a, b) ==
            IF a.data_only # b.data_only
            THEN /\ a.data_only # None
                 /\ (b.data_only = None \/ Val(a.data_only) < Val(b.data_only))
            ELSE a.id < b.id
        before == [i \in DOMAIN grupo |-> [j \in DOMAIN grupo |->
                        Before(grupo[i], grupo[j])]]
    IN StableSort(grupo, before)

\* FiltrarAte without the comparison with the target date
FiltrarSemData(grupo, data) ==
    LET Sel(r) == r.data_only # None
    IN SelectSeq(grupo, Sel)

\* grupo[grupo['data_only'] <= data]: a comparison with NaT is False
FiltrarAte(grupo, data) ==
    LET Sel(r) == r.data_only # None /\ Val(r.data_only) <= data
    IN SelectSeq(grupo, Sel)

\* MaxData with min() in the place of max()
MaxDataMin(rows) ==
    LET ds == {Val(rows[i].data_only) : i \in DOMAIN rows}
    IN CHOOSE d \in ds : \A e \in ds : d <= e

\* rows['data_only'].max()
MaxData(rows) ==
    LET ds == {Val(rows[i].data_only) : i \in DOMAIN rows}
    IN CHOOSE d \in ds : \A e \in ds : e <= d

\* rows[rows['data_only'] == data]
LinhasDoDia(rows, data) ==
    LET Sel(r) == r.data_only = Some(data)
    IN SelectSeq(rows, Sel)

\* LinhaIdMax with idxmin() in the place of idxmax()
LinhaIdMin(rows) ==
    LET i == CHOOSE k \in DOMAIN rows :
                /\ \A j \in DOMAIN rows : rows[k].id <= rows[j].id
                /\ \A j \in 1..(k - 1) : rows[k].id < rows[j].id
    IN rows[i]

\* rows.loc[rows['id'].idxmax()]: the first row that has the greatest id
LinhaIdMax(rows) ==
    LET i == CHOOSE k \in DOMAIN rows :
                /\ \A j \in DOMAIN rows : rows[j].id <= rows[k].id
                /\ \A j \in 1..(k - 1) : rows[j].id < rows[k].id
    IN rows[i]

\* the block SALDO NA DATA DE REFERENCIA: [saldo, data_encontrada]
SaldoRef(grupo, data_ref) ==
    LET df_ref == FiltrarAte(grupo, data_ref)
    IN  IF df_ref = <<>>
        THEN [saldo |-> None, data_encontrada |-> None]
        ELSE LET data_ref_real == MaxData(df_ref)
                 linha == LinhaIdMax(LinhasDoDia(df_ref, data_ref_real))
             IN [saldo |-> Some(linha.saldo_atualizado_valor),
                 data_encontrada |-> Some(data_ref_real)]

\* the block SALDO NA DATA ATUAL (HOJE): [saldo, data_encontrada]
SaldoHoje(grupo, data_hoje) ==
    LET df_hoje == FiltrarAte(grupo, data_hoje)
    IN  IF df_hoje = <<>>
        THEN [saldo |-> None, data_encontrada |-> None]
        ELSE LET data_hoje_real == MaxData(df_hoje)
                 linha == LinhaIdMax(LinhasDoDia(df_hoje, data_hoje_real))
             IN [saldo |-> Some(linha.saldo_atualizado_valor),
                 data_encontrada |-> Some(data_hoje_real)]

\* Movimentacao with a null amount counted as zero
MovimentacaoNuloZero(saldo_ref, saldo_hoje) ==
    IF saldo_ref = None /\ saldo_hoje = None THEN None
    ELSE Some((IF saldo_hoje = None THEN 0 ELSE Val(saldo_hoje))
              - (IF saldo_ref = None THEN 0 ELSE Val(saldo_ref)))

\* the block CALCULO DA MOVIMENTACAO
Movimentacao(saldo_ref, saldo_hoje) ==
    IF saldo_ref # None /\ saldo_hoje # None
    THEN Some(Val(saldo_hoje) - Val(saldo_ref))
    ELSE None

\* the dict appended to resultados.  Its two 'Saldo (dd/mm/YYYY)' keys are
\* one and the same key when data_ref = data_hoje, and the later value
\* (saldo_hoje) is the one the dict keeps.
Resultado(municipio, grupo, data_hoje, data_ref) ==
    LET ref == SaldoRef(grupo, data_ref)
        atual == SaldoHoje(grupo, data_hoje)
    IN [Municipio |-> municipio,
        SaldoRef |-> IF data_ref = data_hoje THEN atual.saldo ELSE ref.saldo,
        DataRefReal |-> ref.data_encontrada,
        SaldoHoje |-> atual.saldo,
        DataHojeReal |-> atual.data_encontrada,
        Movimentacao |-> Movimentacao(ref.saldo, atual.saldo)]

\* SortValuesDesc without ascending=False: ascending, null values last
SortValuesAsc(rows) ==
    LET Before(a, b) ==
            /\ a.SaldoHoje # None
            /\ (b.SaldoHoje = None \/ Val(a.SaldoHoje) < Val(b.SaldoHoje))
        before == [i \in DOMAIN rows |-> [j \in DOMAIN rows |->
                        Before(rows[i], rows[j])]]
    IN StableSort(rows, before)

\* df_result.sort_values(by=col_hoje, ascending=False): descending, rows
\* with a null value last (na_position='last'), ties in their given order
SortValuesDesc(rows) ==
    LET Before(a, b) ==
            /\ a.SaldoHoje # None
            /\ (b.SaldoHoje = None \/ Val(a.SaldoHoje) > Val(b.SaldoHoje))
        before == [i \in DOMAIN rows |-> [j \in DOMAIN rows |->
                        Before(rows[i], rows[j])]]
    IN StableSort(rows, before)

\* [erro, linhas]: the exception raised, if any, and the rows returned.
\* pd.DataFrame([]) has no columns, so sort_values(by=col_hoje) raises
\* KeyError when there is no group.
calcular_saldos(df, data_hoje, data_ref) ==
    LET keys == GroupKeys(df)
        resultados == [k \in 1..Len(keys) |->
            Resultado(keys[k], SortGrupo(Grupo(df, keys[k])), data_hoje, data_ref)]
    IN  IF resultados = <<>>
        THEN [erro |-> "KeyError", linhas |-> <<>>]
        ELSE [erro |-> "", linhas |-> SortValuesDesc(resultados)]

\* ---------------------------------------------------------------------
\* State
\* ---------------------------------------------------------------------
VARIABLES
    tabela,             \* table movimentacoes, a sequence of rows in id order
    pc,                 \* position of main: inicio, carregar, calcular, fim
    data_ref,           \* st.date_input "Data de Referencia"
    data_hoje,          \* st.date_input "Data Atual", after the adjustment
    data_inicio_busca,  \* first argument of carregar_dados_movimentacoes
    data_fim_busca,     \* second argument of carregar_dados_movimentacoes
    df,                 \* the DataFrame carregar_dados_movimentacoes returned
    carga,              \* "" before the load, then "ok" or "falha"
    mensagem,           \* the st.error message main showed, "" if none
    resultado           \* None, or Some([erro, linhas]) of calcular_saldos

vars == <<tabela, pc, data_ref, data_hoje, data_inicio_busca, data_fim_busca,
          df, carga, mensagem, resultado>>

\* ---------------------------------------------------------------------
\* Tables the model starts from
\* ---------------------------------------------------------------------
Min(a, b) == IF a <= b THEN a ELSE b
Max(a, b) == IF a >= b THEN a ELSE b

\* (saldo_anterior_valor, saldo_atualizado_valor) of an entry
SaldoPares == {<<100, 150>>, <<150, 90>>}

DataValida(d) == Some([valida |-> TRUE, dia |-> d])
DataInvalida(d) == Some([valida |-> FALSE, dia |-> d])

LinhaTabela(i, c) ==
    [id |-> i,
     municipio |-> c.municipio,
     data_movimentacao |-> c.data_movimentacao,
     saldo_anterior_valor |-> c.saldos[1],
     saldo_atualizado_valor |-> c.saldos[2]]

\* the rows' contents: every combination of the given values
Conteudos(municipios, datas, saldos) ==
    [municipio : municipios, data_movimentacao : datas, saldos : saldos]

\* every table of at most MaxEntries rows, ids 1..MaxEntries, whose rows
\* take their contents from the given set
Tabelas(conteudos) ==
    LET ids == [i \in 1..MaxEntries |-> i]
        TabelaDe(f) ==
            LET Presente(i) == f[i] # None
                presentes == SelectSeq(ids, Presente)
            IN [k \in 1..Len(presentes) |->
                    LinhaTabela(presentes[k], Val(f[presentes[k]]))]
    IN {TabelaDe(f) :
            f \in [1..MaxEntries -> {None} \cup {Some(c) : c \in conteudos}]}

\* tables of well-formed rows, for the comparison request
TabelasMain ==
    Tabelas(Conteudos({Some(<<"A">>), Some(<<"B">>)},
                      {DataValida(d) : d \in 1..MaxDay},
                      SaldoPares))

\* tables of three municipalities, where a row of "A" may carry a date
\* that does not parse
TabelasResolver ==
    Tabelas(Conteudos({Some(<<"A">>), Some(<<"A", "B">>), Some(<<"B">>)},
                      {DataValida(d) : d \in 1..MaxDay},
                      SaldoPares)
            \cup Conteudos({Some(<<"A">>)}, {DataInvalida(1)}, {<<100, 150>>}))

\* tables with null, padded and unparseable values, and a date before 2020
TabelasLoader ==
    Tabelas(Conteudos({None, Some(<<"A">>), Some(<<" ", "A", " ">>)},
                      {None, DataInvalida(1), DataValida(-1)}
                          \cup {DataValida(d) : d \in 1..MaxDay},
                      {<<100, 150>>}))

\* the dates a user selects in the comparison request: inside the history,
\* before it, and DiasHistorico and more after its last possible entry
DatasSelecionaveis ==
    (0..MaxDay) \cup {MaxDay + DiasHistorico, MaxDay + DiasHistorico + 1}

\* datetime.today().date()
DatasDeHoje == {MaxDay + DiasHistorico}

\* ---------------------------------------------------------------------
\* main: one comparison request
\* ---------------------------------------------------------------------
InitMain ==
    /\ tabela \in TabelasMain
    /\ pc = "inicio"
    /\ data_ref = None
    /\ data_hoje = None
    /\ data_inicio_busca = None
    /\ data_fim_busca = None
    /\ df = <<>>
    /\ carga = ""
    /\ mensagem = ""
    /\ resultado = None

\* the two st.date_input, the search range and the adjustment of data_hoje
DateInput ==
    /\ pc = "inicio"
    /\ \E ref \in DatasSelecionaveis, sel \in DatasSelecionaveis,
          today \in DatasDeHoje :
        /\ data_ref' = Some(ref)
        /\ data_inicio_busca' = Some(Min(ref, sel) - DiasHistorico)
        /\ data_fim_busca' = Some(Max(ref, sel) + DiasDepois)
        /\ data_hoje' = Some(IF sel > today THEN today ELSE sel)
    /\ pc' = "carregar"
    /\ UNCHANGED <<tabela, df, carga, mensagem, resultado>>

\* the try block: the load returns; an empty df ends the request
LoadOk ==
    /\ pc = "carregar"
    /\ df' = carregar_dados_movimentacoes(tabela, data_inicio_busca, data_fim_busca)
    /\ carga' = "ok"
    /\ IF df' = <<>>
       THEN mensagem' = "Nenhum dado encontrado" /\ pc' = "fim"
       ELSE mensagem' = mensagem /\ pc' = "calcular"
    /\ UNCHANGED <<tabela, data_ref, data_hoje, data_inicio_busca,
                   data_fim_busca, resultado>>

\* LoadFail without the return of the except block
LoadFailSemReturn ==
    /\ pc = "carregar"
    /\ carga' = "falha"
    /\ mensagem' = "Erro ao carregar dados"
    /\ pc' = "calcular"
    /\ UNCHANGED <<tabela, data_ref, data_hoje, data_inicio_busca,
                   data_fim_busca, df, resultado>>

\* the except block: the load raised
LoadFail ==
    /\ pc = "carregar"
    /\ carga' = "falha"
    /\ mensagem' = "Erro ao carregar dados"
    /\ pc' = "fim"
    /\ UNCHANGED <<tabela, data_ref, data_hoje, data_inicio_busca,
                   data_fim_busca, df, resultado>>

\* df_resultado = calcular_saldos(df, data_hoje, data_ref)
Calcular ==
    /\ pc = "calcular"
    /\ resultado' = Some(calcular_saldos(df, Val(data_hoje), Val(data_ref)))
    /\ pc' = "fim"
    /\ UNCHANGED <<tabela, data_ref, data_hoje, data_inicio_busca,
                   data_fim_busca, df, carga, mensagem>>

\* the script runs again from the top on the next interaction
NovaRequisicao ==
    /\ pc = "fim"
    /\ pc' = "inicio"
    /\ data_ref' = None
    /\ data_hoje' = None
    /\ data_inicio_busca' = None
    /\ data_fim_busca' = None
    /\ df' = <<>>
    /\ carga' = ""
    /\ mensagem' = ""
    /\ resultado' = None
    /\ UNCHANGED tabela

Next == DateInput \/ LoadOk \/ LoadFail \/ Calcular \/ NovaRequisicao

Spec == InitMain /\ [][Next]_vars

\* ---------------------------------------------------------------------
\* calcular_saldos on every DataFrame the loader can return, the empty
\* one included, and every pair of dates
\* ---------------------------------------------------------------------
InitResolver ==
    /\ tabela \in TabelasResolver
    /\ pc = "calcular"
    /\ data_ref \in {Some(d) : d \in 0..(MaxDay + 1)}
    /\ data_hoje \in {Some(d) : d \in 0..(MaxDay + 1)}
    /\ data_inicio_busca = None
    /\ data_fim_busca = None
    /\ df = carregar_dados_movimentacoes(tabela, None, None)
    /\ carga = "ok"
    /\ mensagem = ""
    /\ resultado = None

NextResolver == Calcular

SpecResolver == InitResolver /\ [][NextResolver]_vars

\* ---------------------------------------------------------------------
\* carregar_dados_movimentacoes on every table and every pair of arguments
\* ---------------------------------------------------------------------
InitLoader ==
    /\ tabela \in TabelasLoader
    /\ pc = "carregar"
    /\ data_ref = None
    /\ data_hoje = None
    /\ data_inicio_busca \in {None} \cup {Some(d) : d \in 1..MaxDay}
    /\ data_fim_busca \in {None} \cup {Some(d) : d \in 1..MaxDay}
    /\ df = <<>>
    /\ carga = ""
    /\ mensagem = ""
    /\ resultado = None

NextLoader == LoadOk \/ LoadFail

SpecLoader == InitLoader /\ [][NextLoader]_vars

\* ---------------------------------------------------------------------
\* Properties.  They are stated over df, the rows calcular_saldos was
\* given, and over tabela, not through the operators that model the code.
\* ---------------------------------------------------------------------
Feito == pc = "fim" /\ resultado # None
Linhas == Val(resultado).linhas
LinhasDe(m) == {k \in DOMAIN Linhas : Linhas[k].Municipio = m}

MunicipiosDf ==
    {Val(df[i].municipio) : i \in {j \in DOMAIN df : df[j].municipio # None}}

\* the entries of municipality m dated on or before d, and dated on d
EntradasAte(m, d) ==
    {i \in DOMAIN df : /\ df[i].municipio = Some(m)
                       /\ df[i].data_only # None
                       /\ Val(df[i].data_only) <= d}
EntradasEm(m, d) ==
    {i \in DOMAIN df : df[i].municipio = Some(m) /\ df[i].data_only = Some(d)}

\* `efetiva` is the greatest entry date of m that is not after `alvo`
EfetivaCerta(m, alvo, efetiva) ==
    /\ efetiva # None
    /\ Val(efetiva) <= alvo
    /\ EntradasEm(m, Val(efetiva)) # {}
    /\ (EntradasEm(m, alvo) # {} => Val(efetiva) = alvo)
    /\ \A i \in EntradasAte(m, alvo) : Val(df[i].data_only) <= Val(efetiva)

\* C1: for every municipality and either target date with an entry on or
\* before it, the effective date reported is the greatest entry date not
\* after the target: never later than the target, equal to it when an entry
\* exists on it, with no entry strictly between it and the target.
C1_EffectiveDate ==
    Feito =>
        \A m \in MunicipiosDf :
            /\ EntradasAte(m, Val(data_ref)) # {} =>
                /\ LinhasDe(m) # {}
                /\ \A k \in LinhasDe(m) :
                      EfetivaCerta(m, Val(data_ref), Linhas[k].DataRefReal)
            /\ EntradasAte(m, Val(data_hoje)) # {} =>
                /\ LinhasDe(m) # {}
                /\ \A k \in LinhasDe(m) :
                      EfetivaCerta(m, Val(data_hoje), Linhas[k].DataHojeReal)

\* a municipality with entries on two days: the reference date is the
\* earlier day (the later entry is not used) and the current date lies
\* after the later day (an earlier effective date is used)
C1_Witness ==
    /\ Feito
    /\ \E k \in DOMAIN Linhas :
        LET m == Linhas[k].Municipio
        IN  /\ Linhas[k].DataRefReal = data_ref
            /\ \E i \in DOMAIN df : /\ df[i].municipio = Some(m)
                                    /\ df[i].data_only # None
                                    /\ Val(df[i].data_only) > Val(data_ref)
            /\ Linhas[k].DataHojeReal # None
            /\ Val(Linhas[k].DataHojeReal) < Val(data_hoje)
            /\ Val(Linhas[k].DataHojeReal) > Val(data_ref)

\* the entry with the greatest id among those of m dated on d
UltimaDoDia(m, d) ==
    df[CHOOSE i \in EntradasEm(m, d) : \A j \in EntradasEm(m, d) : df[j].id <= df[i].id]
\* the entry with the least id among those of m dated on d
PrimeiraDoDia(m, d) ==
    df[CHOOSE i \in EntradasEm(m, d) : \A j \in EntradasEm(m, d) : df[i].id <= df[j].id]

\* C2: (Convention A) whenever an effective date is reported, the amount is
\* the saldo_atualizado_valor of the entry with the greatest id among the
\* municipality's entries on the effective date, for both target dates.
C2_LastOfDay ==
    Feito =>
        \A k \in DOMAIN Linhas :
            LET r == Linhas[k]
            IN  /\ r.DataRefReal # None =>
                    r.SaldoRef = Some(UltimaDoDia(r.Municipio,
                                        Val(r.DataRefReal)).saldo_atualizado_valor)
                /\ r.DataHojeReal # None =>
                    r.SaldoHoje = Some(UltimaDoDia(r.Municipio,
                                        Val(r.DataHojeReal)).saldo_atualizado_valor)

\* two entries with different balances on one day; the reference date is
\* that day and the current date is a later day without entries
C2_Witness ==
    /\ Feito
    /\ \E k \in DOMAIN Linhas :
        LET r == Linhas[k]
        IN  /\ r.DataRefReal = data_ref
            /\ r.DataHojeReal = data_ref
            /\ Val(data_hoje) > Val(data_ref)
            /\ \E i, j \in EntradasEm(r.Municipio, Val(data_ref)) :
                  df[i].saldo_atualizado_valor # df[j].saldo_atualizado_valor

\* C3: a municipality of the input with no entry on or before a target
\* date gets a row, with a null amount and a null effective date for that
\* date, and no exception is raised.
C3_NoHistory ==
    Feito =>
        \A m \in MunicipiosDf :
            /\ EntradasAte(m, Val(data_ref)) = {} =>
                /\ Val(resultado).erro = ""
                /\ LinhasDe(m) # {}
                /\ \A k \in LinhasDe(m) :
                      Linhas[k].SaldoRef = None /\ Linhas[k].DataRefReal = None
            /\ EntradasAte(m, Val(data_hoje)) = {} =>
                /\ Val(resultado).erro = ""
                /\ LinhasDe(m) # {}
                /\ \A k \in LinhasDe(m) :
                      Linhas[k].SaldoHoje = None /\ Linhas[k].DataHojeReal = None

\* a municipality whose dated entries all lie after the reference date
C3_Witness ==
    /\ Feito
    /\ \E k \in DOMAIN Linhas :
        /\ Linhas[k].DataRefReal = None
        /\ Linhas[k].SaldoRef = None
        /\ Linhas[k].SaldoHoje # None
        /\ EntradasAte(Linhas[k].Municipio, Val(data_ref)) = {}

\* C4: the delta of a row is the current amount minus the reference amount
\* when both are non-null, and null when either is null.
C4_Delta ==
    Feito =>
        \A k \in DOMAIN Linhas :
            LET r == Linhas[k]
            IN  IF r.SaldoRef # None /\ r.SaldoHoje # None
                THEN r.Movimentacao = Some(Val(r.SaldoHoje) - Val(r.SaldoRef))
                ELSE r.Movimentacao = None

\* one row with a null reference amount, a current amount and a null delta,
\* next to a row with a delta that is not zero
C4_Witness ==
    /\ Feito
    /\ \E k \in DOMAIN Linhas :
        /\ Linhas[k].SaldoRef = None
        /\ Linhas[k].SaldoHoje # None
        /\ Linhas[k].Movimentacao = None
    /\ \E k \in DOMAIN Linhas :
        /\ Linhas[k].Movimentacao # None
        /\ Val(Linhas[k].Movimentacao) # 0

\* the exact-day conventions a caller chooses from
ExactDayConventions == {"A", "B"}

\* C5: with Convention B selected, an effective date equal to the target
\* date gives the saldo_anterior_valor of the entry with the least id of
\* that day.  calcular_saldos takes no convention, so this is stated for
\* the caller that selected "B".
C5_ConventionB ==
    Feito =>
        \A exact_day_convention \in ExactDayConventions :
            exact_day_convention = "B" =>
                \A k \in DOMAIN Linhas :
                    LET r == Linhas[k]
                    IN  /\ r.DataHojeReal # None /\ r.DataHojeReal = data_hoje =>
                            r.SaldoHoje = Some(PrimeiraDoDia(r.Municipio,
                                    Val(data_hoje)).saldo_anterior_valor)
                        /\ r.DataRefReal # None /\ r.DataRefReal = data_ref =>
                            r.SaldoRef = Some(PrimeiraDoDia(r.Municipio,
                                    Val(data_ref)).saldo_anterior_valor)

\* C7: calcular_saldos raises nothing and returns exactly one row for each
\* distinct municipality of its input, and no other row.
C7_OneRowPerMunicipio ==
    Feito =>
        /\ Val(resultado).erro = ""
        /\ {Linhas[k].Municipio : k \in DOMAIN Linhas} = MunicipiosDf
        /\ Len(Linhas) = Cardinality(MunicipiosDf)

\* C8: the rows are in descending order of the current amount, and the
\* rows with a null current amount come after all the others.
C8_Ordering ==
    Feito =>
        \A i, j \in DOMAIN Linhas :
            i < j =>
                /\ Linhas[i].SaldoHoje = None => Linhas[j].SaldoHoje = None
                /\ Linhas[i].SaldoHoje # None /\ Linhas[j].SaldoHoje # None =>
                      Val(Linhas[i].SaldoHoje) >= Val(Linhas[j].SaldoHoje)

\* three rows that the sort put in the reverse of the group order: the
\* greatest amount first, a smaller one next, a null one last
C8_Witness ==
    /\ Feito
    /\ Len(Linhas) = 3
    /\ Linhas[1].SaldoHoje # None
    /\ Linhas[2].SaldoHoje # None
    /\ Val(Linhas[1].SaldoHoje) > Val(Linhas[2].SaldoHoje)
    /\ Linhas[3].SaldoHoje = None
    /\ StrLess(Linhas[3].Municipio, Linhas[2].Municipio)
    /\ StrLess(Linhas[2].Municipio, Linhas[1].Municipio)

\* C9: every row the loader returns has a non-null municipio and a valid,
\* non-null date.
C9_LoaderDropsMalformed ==
    carga = "ok" =>
        \A i \in DOMAIN df :
            /\ df[i].municipio # None
            /\ df[i].data_movimentacao # None
            /\ df[i].data_only # None

\* the snapshot of the whole table
SnapshotCompleto ==
    carregar_dados_movimentacoes(tabela, Some(0 - DataFimPadrao), Some(DataFimPadrao))

\* C6: a request whose load succeeded on a table that has entries ends with
\* the result of the resolution over the whole table.
C6_FullHistory ==
    pc = "fim" /\ carga = "ok" /\ tabela # <<>> =>
        resultado = Some(calcular_saldos(SnapshotCompleto, Val(data_hoje), Val(data_ref)))

\* C10: after a load that failed, the failure has been reported, the
\* request is over and there is no result; a result exists only after a
\* load that succeeded.
C10_LoadFailure ==
    /\ carga = "falha" =>
        /\ pc = "fim"
        /\ mensagem = "Erro ao carregar dados"
        /\ resultado = None
    /\ resultado # None => carga = "ok" /\ df # <<>>

\* a request that ended in the failure of its load
C10_Witness ==
    /\ carga = "falha"
    /\ pc = "fim"
    /\ mensagem = "Erro ao carregar dados"
    /\ tabela # <<>>

====
